---------------------------- MODULE Spec2Model ----------------------------
(***************************************************************************)
(* MeeusSunMoon: the sun rise/set/transit solver (src/src/sunTimes.js)     *)
(* and the lunar true-phase solver (src/src/moonPhases.js).                *)
(*                                                                         *)
(* The program computes in IEEE doubles; the model computes in fixed       *)
(* point, with these units:                                                *)
(*   angles            centidegrees          (36000 = 360 degrees)         *)
(*   sines, cosines    1/10000                                             *)
(*   day fractions m   half seconds          (172800 = 1 day)              *)
(*   Julian centuries  T is carried as the whole day number since          *)
(*                     2000-01-01 0h, so T +/- 1/36525 is T +/- 1          *)
(*   lunar JDE         microdays since JD 2451550.0                        *)
(***************************************************************************)
EXTENDS Integers, Sequences, FiniteSets, TLC

VARIABLES roundToNearestMinute,      \* index.js setting read at sunTimes.js:28,83
          returnTimeForNoEventCase,  \* index.js setting read at sunTimes.js:103
          pending,                   \* the call in flight, if any
          last                       \* the last call that returned, with its outcome

vars == <<roundToNearestMinute, returnTimeForNoEventCase, pending, last>>

--------------------------------------------------------------------------
(* Bounds of the checked input space.                                      *)

NDays == 3          \* how many of ModelDays are used as call dates
MaxK == 24          \* lunation counts k range over -MaxK .. MaxK
MaxHalf == 60       \* day fractions rounded: -MaxHalf .. MaxHalf half seconds
NFrac == 8          \* the day is cut into NFrac parts for interpolation

--------------------------------------------------------------------------
(* Fixed-point scales.                                                     *)

Deg == 10 * 10                  \* centidegrees per degree
Unit == Deg * Deg               \* the value 1.0 of a sine or cosine
DayM == 2 * 3600 * 24           \* half seconds per day: the value 1.0 of m

Abs(x) == IF x < 0 THEN -x ELSE x

--------------------------------------------------------------------------
(* auxMath: degree trigonometry, reduceAngle, interpolateFromThree.        *)

\* round(10000 * sin(d degrees)) for d = 0 .. 90
SinTab == <<
      0,  175,  349,  523,  698,  872, 1045, 1219, 1392, 1564,
   1736, 1908, 2079, 2250, 2419, 2588, 2756, 2924, 3090, 3256,
   3420, 3584, 3746, 3907, 4067, 4226, 4384, 4540, 4695, 4848,
   5000, 5150, 5299, 5446, 5592, 5736, 5878, 6018, 6157, 6293,
   6428, 6561, 6691, 6820, 6947, 7071, 7193, 7314, 7431, 7547,
   7660, 7771, 7880, 7986, 8090, 8192, 8290, 8387, 8480, 8572,
   8660, 8746, 8829, 8910, 8988, 9063, 9135, 9205, 9272, 9336,
   9397, 9455, 9511, 9563, 9613, 9659, 9703, 9744, 9781, 9816,
   9848, 9877, 9903, 9925, 9945, 9962, 9976, 9986, 9994, 9998,
  10000 >>

\* sine of a first-quadrant angle a in 0 .. 9000, linear between table rows
SinQ(a) ==
  LET d == a \div Deg
      r == a % Deg
  IN  IF d >= 90 THEN Unit
      ELSE SinTab[d + 1] + ((SinTab[d + 2] - SinTab[d + 1]) * r) \div Deg

reduceAngle(x) == x % 36000

sind(x) ==
  LET a == reduceAngle(x)
  IN  IF a <= 9000 THEN SinQ(a)
      ELSE IF a <= 18000 THEN SinQ(18000 - a)
      ELSE IF a <= 27000 THEN -SinQ(a - 18000)
      ELSE -SinQ(36000 - a)

cosd(x) == sind(x + 9000)

\* the cosines of the whole degrees 0 .. 180
CosTab == [e \in 0 .. 180 |-> cosd(e * Deg)]

\* the largest whole degree in lo .. hi whose cosine is at least c
RECURSIVE DegreeOf(_, _, _)
DegreeOf(c, lo, hi) ==
  IF lo >= hi THEN lo
  ELSE LET mid == (lo + hi + 1) \div 2
       IN  IF CosTab[mid] >= c THEN DegreeOf(c, mid, hi)
           ELSE DegreeOf(c, lo, mid - 1)

\* rad2deg(Math.acos(c)) for c in [-1, 1]: the angle in [0, 180] degrees,
\* linear between whole degrees
acosd(c) ==
  IF c <= -Unit THEN 18000
  ELSE IF c >= Unit THEN 0
  ELSE LET d  == DegreeOf(c, 0, 179)
           hi == CosTab[d]
           lo == CosTab[d + 1]
       IN  d * Deg + ((hi - c) * Deg) \div (hi - lo)

\* rad2deg(Math.asin(s)) for s in [-1, 1]: the angle in [-90, 90] degrees
asind(s) == 9000 - acosd(s)

\* y2 + (n / 2) * (a + b + n * c), a = y2 - y1, b = y3 - y2, c = b - a;
\* with normalize, a and b are first re-centred by +/-360 degrees
interpolateFromThree(y1, y2, y3, n, normalize) ==
  LET a0 == y2 - y1
      b0 == y3 - y2
      a  == IF normalize /\ a0 < -18000 THEN a0 + 36000
            ELSE IF normalize /\ a0 > 18000 THEN a0 - 36000 ELSE a0
      b  == IF normalize /\ b0 < -18000 THEN b0 + 36000
            ELSE IF normalize /\ b0 > 18000 THEN b0 - 36000 ELSE b0
      c  == b - a
  IN  y2 + (n * (a + b + (n * c) \div DayM)) \div (2 * DayM)

--------------------------------------------------------------------------
(* luxon DateTime, as the solver uses it.  A DateTime is a record          *)
(*   [day, hour, minute, second, millisecond, offset, isInDST, errorCode]  *)
(* of local calendar fields (day = days since 2000-01-01), the zone's UTC  *)
(* offset in minutes, the zone's DST flag and the errorCode property of    *)
(* the DateTime subclass.  A zone is [offset, isInDST]: the model's zones  *)
(* keep one offset through the day of the call.                            *)

Undefined == "undefined"

DateTime(day, h, mi, s, ms, off, dst) ==
  [day |-> day, hour |-> h, minute |-> mi, second |-> s, millisecond |-> ms,
   offset |-> off, isInDST |-> dst, errorCode |-> Undefined]

\* whole seconds of the local calendar fields since 2000-01-01 0h
LocalSeconds(dt) ==
  ((dt.day * 24 + dt.hour) * 60 + dt.minute) * 60 + dt.second

\* dt.set({hour, minute, second}): the other fields, millisecond among
\* them, are kept
DtSet(dt, h, mi, s) == [dt EXCEPT !.hour = h, !.minute = mi, !.second = s]

\* dt.set({second}): only the seconds field changes
DtSetSecond(dt, s) == [dt EXCEPT !.second = s]

\* dt.plus({seconds: n}), n of either sign
DtPlusSeconds(dt, n) ==
  LET t == LocalSeconds(dt) + n
  IN  [dt EXCEPT !.day    = t \div 86400,
                 !.hour   = (t % 86400) \div 3600,
                 !.minute = (t % 3600) \div 60,
                 !.second = t % 60]

\* dt.minus({seconds: n}) is dt.plus({seconds: -n})
DtMinusSeconds(dt, n) == DtPlusSeconds(dt, -n)

\* dt.zone
ZoneOf(dt) == [offset |-> dt.offset, isInDST |-> dt.isInDST]

\* dt.setZone('UTC', {keepLocalTime: true})
DtSetZoneUTCKeepLocalTime(dt) == [dt EXCEPT !.offset = 0, !.isInDST = FALSE]

\* dt.setZone(zone): the same instant, shown in zone
DtSetZone(dt, zone) ==
  [DtPlusSeconds(dt, (zone.offset - dt.offset) * 60)
     EXCEPT !.offset = zone.offset, !.isInDST = zone.isInDST]

\* the instant of dt as UTC calendar fields, for comparing instants
Instant(dt) ==
  LET u == DtPlusSeconds(dt, -(dt.offset * 60))
  IN  <<u.day, u.hour, u.minute, u.second, u.millisecond>>

--------------------------------------------------------------------------
(* timeConversions and the solar position chain.  The chain's coefficient  *)
(* tables (constants.js) are not part of the sources; the chain is         *)
(* tabulated at the model's days and their neighbours, in centidegrees.    *)

\* 2020-03-20, 2020-06-21, 2020-12-21, 2020-09-22 as days since 2000-01-01
ModelDays == <<7384, 7477, 7660, 7570>>

\* timeConversions.datetimeToT at a local midnight kept as UTC
datetimeToT(dt) == dt.day

\* timeConversions.DeltaT, seconds (TT - UT in 2020)
DeltaTOf(dt) == 72

sunApparentRightAscension(T) ==
  CASE T = 7383 -> 35894 [] T = 7384 -> 35985 [] T = 7385 -> 76
    [] T = 7476 -> 8906  [] T = 7477 -> 9010  [] T = 7478 -> 9114
    [] T = 7659 -> 26843 [] T = 7660 -> 26954 [] T = 7661 -> 27065
    [] T = 7569 -> 17860 [] T = 7570 -> 17950 [] T = 7571 -> 18039

sunApparentDeclination(T) ==
  CASE T = 7383 -> -46   [] T = 7384 -> -6    [] T = 7385 -> 33
    [] T = 7476 -> 2343  [] T = 7477 -> 2344  [] T = 7478 -> 2343
    [] T = 7659 -> -2343 [] T = 7660 -> -2344 [] T = 7661 -> -2344
    [] T = 7569 -> 61    [] T = 7570 -> 22    [] T = 7571 -> -17

apparentSiderealTimeGreenwich(T) ==
  CASE T = 7384 -> 17798 [] T = 7477 -> 26965
    [] T = 7660 -> 9002  [] T = 7570 -> 131

--------------------------------------------------------------------------
(* sunTimes.js: the event time solver.                                     *)

SUN_HIGH == "SUN_HIGH"
SUN_LOW == "SUN_LOW"
NoThrow == "none"

\* a faulty approxLocalHourAngle: Math.asin in place of Math.acos
approxLocalHourAngleAsin(phi, delta, offset) ==
  LET num   == sind(-offset) - (sind(phi) * sind(delta)) \div Unit
      den   == (cosd(phi) * cosd(delta)) \div Unit
      cosH0 == (num * Unit) \div den
  IN  IF cosH0 < -Unit
        THEN [thrown |-> SUN_HIGH, cosH0 |-> cosH0, value |-> 0]
      ELSE IF cosH0 > Unit
        THEN [thrown |-> SUN_LOW, cosH0 |-> cosH0, value |-> 0]
      ELSE [thrown |-> NoThrow, cosH0 |-> cosH0, value |-> asind(cosH0)]

\* a faulty approxLocalHourAngle: the two classifications exchanged
approxLocalHourAngleSwapped(phi, delta, offset) ==
  LET num   == sind(-offset) - (sind(phi) * sind(delta)) \div Unit
      den   == (cosd(phi) * cosd(delta)) \div Unit
      cosH0 == (num * Unit) \div den
  IN  IF cosH0 < -Unit
        THEN [thrown |-> SUN_LOW, cosH0 |-> cosH0, value |-> 0]
      ELSE IF cosH0 > Unit
        THEN [thrown |-> SUN_HIGH, cosH0 |-> cosH0, value |-> 0]
      ELSE [thrown |-> NoThrow, cosH0 |-> cosH0, value |-> acosd(cosH0)]

\* The approximate local hour angle, or the no-event code thrown instead:
\* [thrown, cosH0, value]
approxLocalHourAngle(phi, delta, offset) ==
  LET num   == sind(-offset) - (sind(phi) * sind(delta)) \div Unit
      den   == (cosd(phi) * cosd(delta)) \div Unit
      cosH0 == (num * Unit) \div den
  IN  IF cosH0 < -Unit
        THEN [thrown |-> SUN_HIGH, cosH0 |-> cosH0, value |-> 0]
      ELSE IF cosH0 > Unit
        THEN [thrown |-> SUN_LOW, cosH0 |-> cosH0, value |-> 0]
      ELSE [thrown |-> NoThrow, cosH0 |-> cosH0, value |-> acosd(cosH0)]

\* utcOffset is in minutes: utcOffset / 1440 of a day is utcOffset * 120
\* half seconds
normalizeM(m, utcOffset) ==
  LET localM == m + utcOffset * 120
  IN  IF localM < 0 THEN m + DayM
      ELSE IF localM > DayM THEN m - DayM
      ELSE m

localHourAngle(theta0, L, alpha) ==
  LET H == reduceAngle(theta0 + L - alpha)
  IN  IF H > 18000 THEN H - 36000 ELSE H

\* the argument of Math.asin, at most 1 in magnitude in exact arithmetic,
\* is kept there under the model's rounding
altitude(phi, delta, H) ==
  LET s  == (sind(phi) * sind(delta)) \div Unit
              + (((cosd(phi) * cosd(delta)) \div Unit) * cosd(H)) \div Unit
      sc == IF s > Unit THEN Unit ELSE IF s < -Unit THEN -Unit ELSE s
  IN  asind(sc)

interpolatedRa(T, n) ==
  LET alpha1 == sunApparentRightAscension(T - 1)
      alpha2 == sunApparentRightAscension(T)
      alpha3 == sunApparentRightAscension(T + 1)
      alpha  == interpolateFromThree(alpha1, alpha2, alpha3, n, TRUE)
  IN  reduceAngle(alpha)

interpolatedDec(T, n) ==
  LET delta1 == sunApparentDeclination(T - 1)
      delta2 == sunApparentDeclination(T)
      delta3 == sunApparentDeclination(T + 1)
      delta  == interpolateFromThree(delta1, delta2, delta3, n, FALSE)
  IN  reduceAngle(delta)

\* Theta0 + 360.985647 * m: 360 degrees a day is m * 5 / 24 centidegrees,
\* the remaining 0.985647 degrees a day is m * 57 / 100000
SiderealAt(Theta0, m) == Theta0 + (m * 5) \div 24 + (m * 57) \div 100000

\* DeltaT / 864000 of a day is DeltaT / 5 half seconds
TDFraction(m, DeltaT) == m + DeltaT \div 5

\* a faulty sunTransitCorrection: the sign of H is kept
sunTransitCorrectionSameSign(T, Theta0, DeltaT, L, m) ==
  LET theta0 == SiderealAt(Theta0, m)
      n      == TDFraction(m, DeltaT)
      alpha  == interpolatedRa(T, n)
      H      == localHourAngle(theta0, L, alpha)
  IN  (H * 24) \div 5

sunTransitCorrection(T, Theta0, DeltaT, L, m) ==
  LET theta0 == SiderealAt(Theta0, m)
      n      == TDFraction(m, DeltaT)
      alpha  == interpolatedRa(T, n)
      H      == localHourAngle(theta0, L, alpha)
  IN  (-H * 24) \div 5

\* (h + offset) / (360 * cosd(delta) * cosd(phi) * sind(H)) of a day:
\* 1 / 360 of a day per degree is 48 / 10 half seconds per centidegree
sunRiseSetCorrection(T, Theta0, DeltaT, phi, L, m, offset) ==
  LET theta0 == SiderealAt(Theta0, m)
      n      == TDFraction(m, DeltaT)
      alpha  == interpolatedRa(T, n)
      delta  == interpolatedDec(T, n)
      H      == localHourAngle(theta0, L, alpha)
      h      == altitude(phi, delta, H)
      den    == (((cosd(delta) * cosd(phi)) \div Unit) * sind(H)) \div Unit
  IN  ((h + offset) * 48 * (Unit \div 10)) \div den

\* Math.abs(DeltaM) > 0.0001 of a day, 17.28 half seconds
LargerThanTolerance(DeltaM) == Abs(DeltaM) * 100 > 1728

\* a faulty loop: the corrections are computed but never added to m
RECURSIVE CorrectionLoopNotAdded(_, _, _, _, _, _, _, _, _)
CorrectionLoopNotAdded(T, Theta0, DeltaT, phi, L, offset, m, DeltaM, counter) ==
  IF LargerThanTolerance(DeltaM) /\ counter < 3
    THEN LET d == sunRiseSetCorrection(T, Theta0, DeltaT, phi, L, m, offset)
         IN  CorrectionLoopNotAdded(T, Theta0, DeltaT, phi, L, offset,
                                    m, d, counter + 1)
    ELSE [m |-> m, DeltaM |-> DeltaM, counter |-> counter]

\* The while loop of sunRiseSet from the state (m, DeltaM, counter):
\* [m, DeltaM, counter] at its exit
RECURSIVE CorrectionLoop(_, _, _, _, _, _, _, _, _)
CorrectionLoop(T, Theta0, DeltaT, phi, L, offset, m, DeltaM, counter) ==
  IF LargerThanTolerance(DeltaM) /\ counter < 3
    THEN LET d == sunRiseSetCorrection(T, Theta0, DeltaT, phi, L, m, offset)
         IN  CorrectionLoop(T, Theta0, DeltaT, phi, L, offset,
                            m + d, d, counter + 1)
    ELSE [m |-> m, DeltaM |-> DeltaM, counter |-> counter]

\* a faulty rounding: the 0.5 left out, Math.floor(m * 3600 * 24)
SecondsOfNoBias(m) == m \div 2

\* Math.floor(m * 3600 * 24 + 0.5): m * 86400 is m / 2 seconds
SecondsOf(m) == (m + 1) \div 2

\* the fields of an outcome that a call did not get to
NoInstant == DateTime(0, 0, 0, 0, 0, 0, FALSE)

Outcome(kind, code, value, unrounded, midnight, rounds, m, cosH0) ==
  [kind |-> kind, code |-> code, value |-> value, unrounded |-> unrounded,
   midnight |-> midnight, rounds |-> rounds, m |-> m, cosH0 |-> cosH0]

\* The intermediate values of a call, kept with its outcome: the normalised
\* base fraction m0, the hour angle H0, the m the corrections start from and
\* the last correction DeltaM
Steps(m0, H0, mStart, DeltaM) ==
  [m0 |-> m0, H0 |-> H0, mStart |-> mStart, DeltaM |-> DeltaM]

\* The outcome of sunTransit(datetime, L): kind "instant" with the returned
\* DateTime in value
sunTransit(datetime, L) ==
  LET timezone == ZoneOf(datetime)
      transit0 == DtSetZoneUTCKeepLocalTime(DtSet(datetime, 0, 0, 0))
      DeltaT   == DeltaTOf(transit0)
      T        == datetimeToT(transit0)
      Theta0   == apparentSiderealTimeGreenwich(T)
      alpha    == sunApparentRightAscension(T)
      m0       == normalizeM(((alpha - L - Theta0) * 24) \div 5, datetime.offset)
      DeltaM   == sunTransitCorrection(T, Theta0, DeltaT, L, m0)
      m        == m0 + DeltaM
      transit1 == DtPlusSeconds(transit0, SecondsOf(m))
      transit2 == IF roundToNearestMinute
                    THEN DtSetSecond(DtPlusSeconds(transit1, 30), 0)
                    ELSE transit1
  IN  Outcome("instant", NoThrow, DtSetZone(transit2, timezone),
              DtSetZone(transit1, timezone), transit0, 1, m, 0)
        @@ Steps(m0, 0, m0, DeltaM)

\* The outcome of sunRiseSet(datetime, phi, L, flag, offset): kind "throw"
\* with the code thrown, kind "false" for the return of false, or kind
\* "instant" with the returned DateTime in value.  rounds counts the calls
\* of sunRiseSetCorrection.
sunRiseSet(datetime, phi, L, flag, offset) ==
  LET timezone == ZoneOf(datetime)
      suntime0 == DtSetZoneUTCKeepLocalTime(DtSet(datetime, 0, 0, 0))
      DeltaT   == DeltaTOf(suntime0)
      T        == datetimeToT(suntime0)
      Theta0   == apparentSiderealTimeGreenwich(T)
      alpha    == sunApparentRightAscension(T)
      delta    == sunApparentDeclination(T)
      ha       == approxLocalHourAngle(phi, delta, offset)
  IN  IF ha.thrown # NoThrow
        THEN Outcome("throw", ha.thrown, NoInstant, NoInstant, suntime0,
                     0, 0, ha.cosH0)
               @@ Steps(0, 0, 0, DayM)
      ELSE
        LET H0 == ha.value
            m0 == normalizeM(((alpha - L - Theta0) * 24) \div 5,
                             datetime.offset)
        IN  IF flag \notin {"RISE", "SET"}
              THEN Outcome("false", NoThrow, NoInstant, NoInstant, suntime0,
                           0, 0, ha.cosH0)
                     @@ Steps(m0, H0, 0, DayM)
            ELSE
              LET mStart   == IF flag = "RISE" THEN m0 - (H0 * 24) \div 5
                                               ELSE m0 + (H0 * 24) \div 5
                  loop     == CorrectionLoop(T, Theta0, DeltaT, phi, L, offset,
                                             mStart, DayM, 0)
                  m        == loop.m
                  suntime1 == IF m > 0
                                THEN DtPlusSeconds(suntime0, SecondsOf(m))
                                ELSE DtMinusSeconds(suntime0, SecondsOf(m))
                  suntime2 == IF roundToNearestMinute
                                THEN DtSetSecond(DtPlusSeconds(suntime1, 30), 0)
                                ELSE suntime1
              IN  Outcome("instant", NoThrow, DtSetZone(suntime2, timezone),
                          DtSetZone(suntime1, timezone), suntime0,
                          loop.counter, m, ha.cosH0)
                    @@ Steps(m0, H0, mStart, loop.DeltaM)

\* `if (errorCode)`: undefined and the empty string are falsy
Truthy(x) == x \notin {Undefined, ""}

\* a faulty handleNoEventCase: the fallback instant is never tagged
handleNoEventCaseUntagged(date, errorCode, hour, minute) ==
  IF returnTimeForNoEventCase
    THEN [kind |-> "instant",
          value |-> DtPlusSeconds(DtSet(date, hour, minute, 0),
                      (IF date.isInDST THEN 60 ELSE 0) * 60),
          code |-> Undefined, date |-> date]
    ELSE [kind |-> "code", value |-> NoInstant, code |-> errorCode,
          date |-> date]

\* a faulty handleNoEventCase: no daylight-saving adjustment
handleNoEventCaseNoDST(date, errorCode, hour, minute) ==
  IF returnTimeForNoEventCase
    THEN LET returnDate == DtSet(date, hour, minute, 0)
             tagged     == IF Truthy(errorCode)
                             THEN [returnDate EXCEPT !.errorCode = errorCode]
                             ELSE returnDate
         IN  [kind |-> "instant", value |-> tagged, code |-> Undefined,
              date |-> date]
    ELSE [kind |-> "code", value |-> NoInstant, code |-> errorCode,
          date |-> date]

\* The outcome of handleNoEventCase(date, errorCode, hour, minute):
\* [kind, value, code, date], kind "instant" with the returned DateTime in
\* value or kind "code" with the returned errorCode in code; date is the
\* caller's date object as the call leaves it.
handleNoEventCase(date, errorCode, hour, minute) ==
  IF returnTimeForNoEventCase
    THEN LET returnDate == DtPlusSeconds(DtSet(date, hour, minute, 0),
                             (IF date.isInDST THEN 60 ELSE 0) * 60)
             tagged     == IF Truthy(errorCode)
                             THEN [returnDate EXCEPT !.errorCode = errorCode]
                             ELSE returnDate
         IN  [kind |-> "instant", value |-> tagged, code |-> Undefined,
              date |-> date]
    ELSE [kind |-> "code", value |-> NoInstant, code |-> errorCode,
          date |-> date]

--------------------------------------------------------------------------
(* moonPhases.js: the lunar true-phase solver.  The lunation count is      *)
(* carried in quarter lunations (k = 4 * lunation + phase, so the code's   *)
(* k + phase / 4 is exact), T in microcenturies, angles in centidegrees,   *)
(* E in 1/10000, corrections and dates in microdays.                       *)

JDEpoch == 2451550     \* the Julian day that model dates count from

\* timeConversions.kToT: k / 1236.85 centuries, k in quarter lunations
kToT(k) == (k * 10000000) \div 49474

\* v / 10^e, e in 1 .. 18
Pow10 == <<10, 100, 1000, 10000, 100000, 1000000, 10000000, 100000000,
           1000000000>>
Shift(v, e) == IF e <= 9 THEN v \div Pow10[e]
               ELSE (v \div Pow10[9]) \div Pow10[e - 9]

\* T * T, T * T * T and T * T * T * T, in millionths
T2(T) == (T * T) \div 1000000
T3(T) == (T2(T) * T) \div 1000000
T4(T) == (T3(T) * T) \div 1000000

\* 2451550.09766 + 29.530588861 * k + 0.00015437 * T^2 - 0.000000150 * T^3
\*   + 0.00000000073 * T^4
meanPhase(T, k) ==
  97660 + k * 7382647 + (k * 215) \div 1000
    + Shift(15437 * T2(T), 8) - Shift(15 * T3(T), 8) + Shift(73 * T4(T), 11)

\* 2.5534 + 29.10535670 * k - 0.0000014 * T^2 - 0.00000011 * T^3
sunMeanAnomaly(T, k) ==
  255 + (k * 7276339) \div 10000
    - Shift(14 * T2(T), 11) - Shift(11 * T3(T), 12)

\* 201.5643 + 385.81693528 * k + 0.0107582 * T^2 + 0.00001238 * T^3
\*   - 0.000000058 * T^4
moonMeanAnomaly(T, k) ==
  20156 + (k * 9645423) \div 1000
    + Shift(107582 * T2(T), 11) + Shift(1238 * T3(T), 12)
    - Shift(58 * T4(T), 13)

\* 160.7108 + 390.67050284 * k - 0.0016118 * T^2 - 0.00000227 * T^3
\*   + 0.000000011 * T^4
moonArgumentOfLatitude(T, k) ==
  16071 + (k * 9766763) \div 1000
    - Shift(16118 * T2(T), 11) - Shift(227 * T3(T), 12)
    + Shift(11 * T4(T), 13)

\* 124.7746 - 1.56375588 * k + 0.0020672 * T^2 + 0.00000215 * T^3
moonAscendingNodeLongitude(T, k) ==
  12477 - (k * 390939) \div 10000
    + Shift(20672 * T2(T), 11) + Shift(215 * T3(T), 12)

\* 1 - 0.002516 * T - 0.0000074 * T^2
eccentricityCorrection(T) ==
  Unit - Shift(2516 * T, 8) - Shift(74 * T2(T), 9)

\* the planetary arguments A[1] .. A[14]; A[0] is 0 as in the source
planetaryArguments(T, k) ==
  [i \in 0 .. 14 |->
     CASE i = 0 -> 0
         [] i = 1 -> 29977 + (k * 2685) \div 1000 - Shift(9173 * T2(T), 10)
         [] i = 2 -> 25188 + (k * 408) \div 1000
         [] i = 3 -> 25183 + (k * 666297) \div 1000
         [] i = 4 -> 34942 + (k * 910312) \div 1000
         [] i = 5 -> 8466 + (k * 455156) \div 1000
         [] i = 6 -> 14174 + (k * 1332594) \div 1000
         [] i = 7 -> 20714 + (k * 61343) \div 1000
         [] i = 8 -> 15484 + (k * 182672) \div 1000
         [] i = 9 -> 3452 + (k * 681531) \div 1000
         [] i = 10 -> 20719 + (k * 3046) \div 1000
         [] i = 11 -> 29134 + (k * 46109) \div 1000
         [] i = 12 -> 16172 + (k * 604954) \div 1000
         [] i = 13 -> 23956 + (k * 637827) \div 1000
         [] i = 14 -> 33155 + (k * 89813) \div 1000]

\* a coefficient times E
ETerm(c, E) == (c * E) \div Unit

commonCorrections(A) ==
  (
      325 * sind(A[1])
    + 165 * sind(A[2])
    + 164 * sind(A[3])
    + 126 * sind(A[4])
    + 110 * sind(A[5])
    + 62 * sind(A[6])
    + 60 * sind(A[7])
    + 56 * sind(A[8])
    + 47 * sind(A[9])
    + 42 * sind(A[10])
    + 40 * sind(A[11])
    + 37 * sind(A[12])
    + 35 * sind(A[13])
    + 23 * sind(A[14])
  ) \div Unit

\* the 18 terms shared by new and full moon, in 1e-9 days
NewFullSeries(E, M, MPrime, F, Omega) ==
    - 111 * sind(MPrime - 2 * F)
    - 57 * sind(MPrime + 2 * F)
    + ETerm(56, E) * sind(2 * MPrime + M)
    - 42 * sind(3 * MPrime)
    + ETerm(42, E) * sind(M + 2 * F)
    + ETerm(38, E) * sind(M - 2 * F)
    - ETerm(24, E) * sind(2 * MPrime - M)
    - 17 * sind(Omega)
    - 7 * sind(MPrime + 2 * M)
    + 4 * sind(2 * MPrime - 2 * F)
    + 4 * sind(3 * M)
    + 3 * sind(MPrime + M - 2 * F)
    + 3 * sind(2 * MPrime + 2 * F)
    - 3 * sind(MPrime + M + 2 * F)
    + 3 * sind(MPrime - M + 2 * F)
    - 2 * sind(MPrime - M - 2 * F)
    - 2 * sind(3 * MPrime + M)
    + 2 * sind(4 * MPrime)

\* a faulty NewMoonSeries: the leading coefficient mistyped as 1.40720
NewMoonSeriesSlipped(E, M, MPrime, F) ==
    - 140720 * sind(MPrime)
    + ETerm(17241, E) * sind(M)
    + 1608 * sind(2 * MPrime)
    + 1039 * sind(2 * F)
    + ETerm(739, E) * sind(MPrime - M)
    - ETerm(514, E) * sind(MPrime + M)
    + ETerm(ETerm(208, E), E) * sind(2 * M)

\* the 7 leading terms of the new moon
NewMoonSeries(E, M, MPrime, F) ==
    - 40720 * sind(MPrime)
    + ETerm(17241, E) * sind(M)
    + 1608 * sind(2 * MPrime)
    + 1039 * sind(2 * F)
    + ETerm(739, E) * sind(MPrime - M)
    - ETerm(514, E) * sind(MPrime + M)
    + ETerm(ETerm(208, E), E) * sind(2 * M)

\* the 7 leading terms of the full moon
FullMoonSeries(E, M, MPrime, F) ==
    - 40614 * sind(MPrime)
    + ETerm(17302, E) * sind(M)
    + 1614 * sind(2 * MPrime)
    + 1043 * sind(2 * F)
    + ETerm(734, E) * sind(MPrime - M)
    - ETerm(515, E) * sind(MPrime + M)
    + ETerm(ETerm(209, E), E) * sind(2 * M)

newMoonFullMoonCorrections(E, M, MPrime, F, Omega, phase) ==
  LET DeltaJDE == NewFullSeries(E, M, MPrime, F, Omega)
  IN  (IF phase = 0 THEN DeltaJDE + NewMoonSeries(E, M, MPrime, F)
       ELSE IF phase = 2 THEN DeltaJDE + FullMoonSeries(E, M, MPrime, F)
       ELSE DeltaJDE) \div 1000

\* the 25 terms of the quarter phases, in 1e-9 days
QuarterSeries(E, M, MPrime, F, Omega) ==
    - 62801 * sind(MPrime)
    + ETerm(17172, E) * sind(M)
    - ETerm(1183, E) * sind(MPrime + M)
    + 862 * sind(2 * MPrime)
    + 804 * sind(2 * F)
    + ETerm(454, E) * sind(MPrime - M)
    + ETerm(ETerm(204, E), E) * sind(2 * M)
    - 180 * sind(MPrime - 2 * F)
    - 70 * sind(MPrime + 2 * F)
    - 40 * sind(3 * MPrime)
    - ETerm(34, E) * sind(2 * MPrime - M)
    + ETerm(32, E) * sind(M + 2 * F)
    + ETerm(32, E) * sind(M - 2 * F)
    - ETerm(ETerm(28, E), E) * sind(MPrime + 2 * M)
    + ETerm(27, E) * sind(2 * MPrime + M)
    - 17 * sind(Omega)
    - 5 * sind(MPrime - M - 2 * F)
    + 4 * sind(2 * MPrime + 2 * F)
    - 4 * sind(MPrime + M + 2 * F)
    + 4 * sind(MPrime - 2 * M)
    + 3 * sind(MPrime + M - 2 * F)
    + 3 * sind(3 * M)
    + 2 * sind(2 * MPrime - 2 * F)
    + 2 * sind(MPrime - M + 2 * F)
    - 2 * sind(3 * MPrime + M)

\* the term W of the quarter phases, in 1e-9 days
QuarterW(E, M, MPrime, F) ==
      306 * Unit
    - ETerm(38, E) * cosd(M)
    + 26 * cosd(MPrime)
    - 2 * cosd(MPrime - M)
    + 2 * cosd(MPrime + M)
    + 2 * cosd(2 * F)

\* a faulty quarterCorrections: W added for the last quarter too
quarterCorrectionsWAdded(E, M, MPrime, F, Omega, phase) ==
  LET DeltaJDE == QuarterSeries(E, M, MPrime, F, Omega)
      W        == QuarterW(E, M, MPrime, F)
  IN  (IF phase = 1 THEN DeltaJDE + W
       ELSE IF phase = 3 THEN DeltaJDE + W
       ELSE DeltaJDE) \div 1000

quarterCorrections(E, M, MPrime, F, Omega, phase) ==
  LET DeltaJDE == QuarterSeries(E, M, MPrime, F, Omega)
      W        == QuarterW(E, M, MPrime, F)
  IN  (IF phase = 1 THEN DeltaJDE + W
       ELSE IF phase = 3 THEN DeltaJDE - W
       ELSE DeltaJDE) \div 1000

\* truePhase(k, phase) for a whole lunation count k: the Julian ephemeris
\* date in microdays since JDEpoch
truePhase(k0, phase) ==
  LET k      == 4 * k0 + phase
      T      == kToT(k)
      E      == eccentricityCorrection(T)
      JDE    == meanPhase(T, k)
      M      == sunMeanAnomaly(T, k)
      MPrime == moonMeanAnomaly(T, k)
      F      == moonArgumentOfLatitude(T, k)
      Omega  == moonAscendingNodeLongitude(T, k)
      A      == planetaryArguments(T, k)
      D1     == IF phase = 0 \/ phase = 2
                  THEN newMoonFullMoonCorrections(E, M, MPrime, F, Omega, phase)
                ELSE IF phase = 1 \/ phase = 3
                  THEN quarterCorrections(E, M, MPrime, F, Omega, phase)
                ELSE 0
      DeltaJDE == D1 + commonCorrections(A)
  IN  JDE + DeltaJDE

--------------------------------------------------------------------------
(* The calls a client makes, over a bounded input space.                   *)

\* [phi, L, offset]: latitude and longitude (east positive) in
\* centidegrees and the zone's UTC offset in minutes:
\* Greenwich, Sydney, New York, Longyearbyen
Places ==
  { [phi |-> 5148,  L |-> 0,     offset |-> 0],
    [phi |-> -3387, L |-> 15121, offset |-> 600],
    [phi |-> 4071,  L |-> -7401, offset |-> -300],
    [phi |-> 7822,  L |-> 1565,  offset |-> 60] }

Days == { ModelDays[i] : i \in 1 .. NDays }

\* <<hour, minute, second, millisecond>> of the datetime passed in
TimesOfDay == { <<0, 0, 0, 0>>, <<10, 30, 15, 0>>, <<10, 30, 15, 500>> }

Flags == { "RISE", "SET", "NOON" }

\* the horizon offsets 50/60 and 18 degrees
Offsets == { 83, 1800 }

\* the zones of the dates handed to handleNoEventCase: [offset, isInDST]
Zones ==
  { [offset |-> 0,    isInDST |-> FALSE],
    [offset |-> 60,   isInDST |-> TRUE],
    [offset |-> 600,  isInDST |-> FALSE],
    [offset |-> -240, isInDST |-> TRUE] }

NoEventCodes == { SUN_HIGH, SUN_LOW }
Hours == { 6, 18, 23 }
Minutes == { 0, 30 }

\* right ascensions and sidereal times in [0, 360), longitudes in
\* [-180, 180], UTC offsets in minutes from UTC-12 to UTC+14
Angles == { 0, 9000, 18000, 27000, 35999 }
Longitudes == { -18000, -9000, 0, 9000, 17000, 18000 }
UtcOffsets == { -720, -300, -60, 0, 60, 600, 840 }

\* day fractions in half seconds around 0, ties of the rounding included
HalfSeconds == -MaxHalf .. MaxHalf

\* day fractions n from 0 to 1 at which the declination is interpolated
Fractions == { i * (DayM \div NFrac) : i \in 0 .. NFrac }

\* a call in flight, and a call that returned
Pending(fn, args) == [fn |-> fn, args |-> args]
Call(fn, args, setting, out) ==
  [fn |-> fn, args |-> args, setting |-> setting, out |-> out]

NoCall == Pending("none", <<>>)
NoResult == Call("none", <<>>, FALSE, <<>>)

Init ==
  /\ roundToNearestMinute = FALSE
  /\ returnTimeForNoEventCase = FALSE
  /\ pending = NoCall
  /\ last = NoResult

\* index.js: the settings call that assigns the two exported flags
Settings ==
  /\ pending = NoCall
  /\ \E r \in BOOLEAN, n \in BOOLEAN :
       /\ roundToNearestMinute' = r
       /\ returnTimeForNoEventCase' = n
  /\ UNCHANGED <<pending, last>>

\* a client calls sunRiseSet
SunRiseSetCall ==
  /\ pending = NoCall
  /\ \E day \in Days, p \in Places, t \in TimesOfDay, flag \in Flags,
        offset \in Offsets :
       pending' = Pending("sunRiseSet",
         [datetime |-> DateTime(day, t[1], t[2], t[3], t[4], p.offset, FALSE),
          phi |-> p.phi, L |-> p.L, flag |-> flag, offset |-> offset])
  /\ last' = NoResult
  /\ UNCHANGED <<roundToNearestMinute, returnTimeForNoEventCase>>

\* sunRiseSet runs
SunRiseSetReturn ==
  /\ pending.fn = "sunRiseSet"
  /\ LET a == pending.args
     IN  last' = Call("sunRiseSet", a, roundToNearestMinute,
                      sunRiseSet(a.datetime, a.phi, a.L, a.flag, a.offset))
  /\ pending' = NoCall
  /\ UNCHANGED <<roundToNearestMinute, returnTimeForNoEventCase>>

\* a client calls sunTransit
SunTransitCall ==
  /\ pending = NoCall
  /\ \E day \in Days, p \in Places, t \in TimesOfDay :
       pending' = Pending("sunTransit",
         [datetime |-> DateTime(day, t[1], t[2], t[3], t[4], p.offset, FALSE),
          L |-> p.L])
  /\ last' = NoResult
  /\ UNCHANGED <<roundToNearestMinute, returnTimeForNoEventCase>>

\* sunTransit runs
SunTransitReturn ==
  /\ pending.fn = "sunTransit"
  /\ LET a == pending.args
     IN  last' = Call("sunTransit", a, roundToNearestMinute,
                      sunTransit(a.datetime, a.L))
  /\ pending' = NoCall
  /\ UNCHANGED <<roundToNearestMinute, returnTimeForNoEventCase>>

\* a client calls handleNoEventCase
HandleNoEventCall ==
  /\ pending = NoCall
  /\ \E day \in Days, z \in Zones, t \in TimesOfDay,
        errorCode \in NoEventCodes \cup {Undefined},
        hour \in Hours, minute \in Minutes :
       pending' = Pending("handleNoEventCase",
         [date |-> DateTime(day, t[1], t[2], t[3], t[4], z.offset, z.isInDST),
          errorCode |-> errorCode, hour |-> hour, minute |-> minute])
  /\ last' = NoResult
  /\ UNCHANGED <<roundToNearestMinute, returnTimeForNoEventCase>>

\* handleNoEventCase runs
HandleNoEventReturn ==
  /\ pending.fn = "handleNoEventCase"
  /\ LET a == pending.args
     IN  last' = Call("handleNoEventCase", a, returnTimeForNoEventCase,
                      handleNoEventCase(a.date, a.errorCode, a.hour, a.minute))
  /\ pending' = NoCall
  /\ UNCHANGED <<roundToNearestMinute, returnTimeForNoEventCase>>

\* a client calls truePhase
TruePhaseCall ==
  /\ pending = NoCall
  /\ \E k \in -MaxK .. MaxK, phase \in 0 .. 3 :
       pending' = Pending("truePhase", [k |-> k, phase |-> phase])
  /\ last' = NoResult
  /\ UNCHANGED <<roundToNearestMinute, returnTimeForNoEventCase>>

\* truePhase runs
TruePhaseReturn ==
  /\ pending.fn = "truePhase"
  /\ LET a == pending.args
     IN  last' = Call("truePhase", a, FALSE,
                      [jde |-> truePhase(a.k, a.phase)])
  /\ pending' = NoCall
  /\ UNCHANGED <<roundToNearestMinute, returnTimeForNoEventCase>>

\* sunRiseSet and sunTransit compute the base fraction (lines 23-24, 60-61)
NormalizeMCall ==
  /\ pending = NoCall
  /\ \E alpha \in Angles, L \in Longitudes, Theta0 \in Angles,
        utcOffset \in UtcOffsets :
       pending' = Pending("normalizeM",
         [alpha |-> alpha, L |-> L, Theta0 |-> Theta0,
          utcOffset |-> utcOffset])
  /\ last' = NoResult
  /\ UNCHANGED <<roundToNearestMinute, returnTimeForNoEventCase>>

\* normalizeM runs on m0 = (alpha - L - Theta0) / 360
NormalizeMReturn ==
  /\ pending.fn = "normalizeM"
  /\ LET a  == pending.args
         m0 == ((a.alpha - a.L - a.Theta0) * 24) \div 5
     IN  last' = Call("normalizeM", a, FALSE,
                      [m0 |-> m0, value |-> normalizeM(m0, a.utcOffset)])
  /\ pending' = NoCall
  /\ UNCHANGED <<roundToNearestMinute, returnTimeForNoEventCase>>

\* the localise step is given a final day fraction m (lines 27, 78-82)
SecondsOfCall ==
  /\ pending = NoCall
  /\ \E m \in HalfSeconds : pending' = Pending("secondsOf", [m |-> m])
  /\ last' = NoResult
  /\ UNCHANGED <<roundToNearestMinute, returnTimeForNoEventCase>>

\* Math.floor(m * 3600 * 24 + 0.5) is evaluated
SecondsOfReturn ==
  /\ pending.fn = "secondsOf"
  /\ last' = Call("secondsOf", pending.args, FALSE,
                  [value |-> SecondsOf(pending.args.m)])
  /\ pending' = NoCall
  /\ UNCHANGED <<roundToNearestMinute, returnTimeForNoEventCase>>

\* sunRiseSetCorrection asks for the declination at fraction n (line 186)
InterpolatedDecCall ==
  /\ pending = NoCall
  /\ \E T \in Days, n \in Fractions :
       pending' = Pending("interpolatedDec", [T |-> T, n |-> n])
  /\ last' = NoResult
  /\ UNCHANGED <<roundToNearestMinute, returnTimeForNoEventCase>>

\* interpolatedDec runs; direct is sunApparentDeclination of the same day
InterpolatedDecReturn ==
  /\ pending.fn = "interpolatedDec"
  /\ LET a == pending.args
     IN  last' = Call("interpolatedDec", a, FALSE,
                      [direct |-> sunApparentDeclination(a.T),
                       value |-> interpolatedDec(a.T, a.n)])
  /\ pending' = NoCall
  /\ UNCHANGED <<roundToNearestMinute, returnTimeForNoEventCase>>

Next ==
  \/ Settings
  \/ SunRiseSetCall
  \/ SunRiseSetReturn
  \/ SunTransitCall
  \/ SunTransitReturn
  \/ HandleNoEventCall
  \/ HandleNoEventReturn
  \/ TruePhaseCall
  \/ TruePhaseReturn
  \/ NormalizeMCall
  \/ NormalizeMReturn
  \/ SecondsOfCall
  \/ SecondsOfReturn
  \/ InterpolatedDecCall
  \/ InterpolatedDecReturn

Spec == Init /\ [][Next]_vars

\* the sun solver and the settings it reads
NextSun ==
  \/ Settings
  \/ SunRiseSetCall
  \/ SunRiseSetReturn
  \/ SunTransitCall
  \/ SunTransitReturn
SpecSun == Init /\ [][NextSun]_vars

\* the no-event policy and the settings it reads
NextNoEvent == Settings \/ HandleNoEventCall \/ HandleNoEventReturn
SpecNoEvent == Init /\ [][NextNoEvent]_vars

\* the lunar solver
NextMoon == TruePhaseCall \/ TruePhaseReturn
SpecMoon == Init /\ [][NextMoon]_vars

\* the solver's steps taken one at a time
NextSteps ==
  \/ NormalizeMCall
  \/ NormalizeMReturn
  \/ SecondsOfCall
  \/ SecondsOfReturn
  \/ InterpolatedDecCall
  \/ InterpolatedDecReturn
SpecSteps == Init /\ [][NextSteps]_vars

--------------------------------------------------------------------------
(* Properties.                                                             *)

IsRiseSet == last.fn = "sunRiseSet"
IsTransit == last.fn = "sunTransit"
IsNoEvent == last.fn = "handleNoEventCase"
IsTruePhase == last.fn = "truePhase"

\* C1: in sunRiseSet the domain check of approxLocalHourAngle comes before
\* any correction round: a call whose hour-angle cosine is below -1 ends by
\* throwing SUN_HIGH, one whose cosine is above 1 by throwing SUN_LOW, both
\* with no call of sunRiseSetCorrection and no instant returned; and
\* SUN_HIGH and SUN_LOW are the only codes the solver throws.
C1_DomainCheckFirst ==
  IsRiseSet =>
    LET o == last.out
    IN  /\ o.cosH0 < -Unit =>
             /\ o.kind = "throw" /\ o.code = SUN_HIGH
             /\ o.rounds = 0 /\ o.value = NoInstant
        /\ o.cosH0 > Unit =>
             /\ o.kind = "throw" /\ o.code = SUN_LOW
             /\ o.rounds = 0 /\ o.value = NoInstant
        /\ o.kind = "throw" => o.code \in {SUN_HIGH, SUN_LOW}

\* a call of sunRiseSet with the hour-angle cosine below -1 has thrown
C1_Witness ==
  IsRiseSet /\ last.out.cosH0 < -Unit /\ last.out.kind = "throw"

\* C2: every call of sunRiseSet whose flag is neither 'RISE' nor 'SET'
\* returns false: never an instant, never a thrown SUN_HIGH or SUN_LOW, and
\* no correction round runs.
C2_InvalidFlagRejected ==
  (IsRiseSet /\ last.args.flag \notin {"RISE", "SET"}) =>
    (last.out.kind = "false" /\ last.out.rounds = 0)

\* the classification an outcome of handleNoEventCase carries
Carried(o) == IF o.kind = "code" THEN o.code ELSE o.value.errorCode

\* C3 (as claimed): for both settings of returnTimeForNoEventCase and every
\* errorCode argument, an absent one included, the outcome of
\* handleNoEventCase is the classification code or an instant whose
\* errorCode carries it.
C3_AlwaysObservable ==
  IsNoEvent => Carried(last.out) \in NoEventCodes

\* C3 (amended): when handleNoEventCase is given a classification (SUN_HIGH
\* or SUN_LOW) the outcome is that code or an instant whose errorCode is
\* that code, for both settings of returnTimeForNoEventCase; given no
\* errorCode, the outcome carries none.
C3_ObservableWhenGiven ==
  IsNoEvent =>
    /\ last.args.errorCode \in NoEventCodes =>
         Carried(last.out) = last.args.errorCode
    /\ last.args.errorCode = Undefined => Carried(last.out) = Undefined

\* a fallback instant was returned that is tagged SUN_HIGH
C3_Witness ==
  /\ IsNoEvent /\ last.args.errorCode = SUN_HIGH
  /\ last.out.kind = "instant" /\ last.out.value.errorCode = SUN_HIGH

\* C4: with returnTimeForNoEventCase set, handleNoEventCase returns the
\* input date at hour:minute:00, moved by exactly 60 minutes when
\* date.isInDST and not at all otherwise, tagged with errorCode; with the
\* setting clear it returns errorCode and no instant; the input date is
\* left as it was.
C4_FallbackInstant ==
  IsNoEvent =>
    LET a == last.args
        o == last.out
        atClock == DateTime(a.date.day, a.hour, a.minute, 0,
                            a.date.millisecond, a.date.offset,
                            a.date.isInDST)
        shift == IF a.date.isInDST THEN 60 * 60 ELSE 0
    IN  /\ last.setting =>
             /\ o.kind = "instant"
             /\ LocalSeconds(o.value) = LocalSeconds(atClock) + shift
             /\ ZoneOf(o.value) = ZoneOf(a.date)
             /\ o.value.errorCode = a.errorCode
        /\ ~last.setting =>
             /\ o.kind = "code" /\ o.code = a.errorCode
             /\ o.value = NoInstant
        /\ o.date = a.date

\* a fallback instant was returned for a date in daylight-saving time
C4_Witness ==
  /\ IsNoEvent /\ last.setting /\ last.args.date.isInDST
  /\ last.out.kind = "instant" /\ last.args.errorCode = SUN_LOW

\* C5: calls of sunRiseSet, sunTransit and handleNoEventCase are
\* referentially transparent: in every reachable state a second call with
\* the arguments of the last one has the outcome of the last one.
C5_ReferentiallyTransparent ==
  LET a == last.args
  IN  /\ IsRiseSet =>
           sunRiseSet(a.datetime, a.phi, a.L, a.flag, a.offset) = last.out
      /\ IsTransit => sunTransit(a.datetime, a.L) = last.out
      /\ IsNoEvent =>
           handleNoEventCase(a.date, a.errorCode, a.hour, a.minute) = last.out

\* dt at another time of day of its local calendar date
AtTimeOfDay(dt, t) ==
  [dt EXCEPT !.hour = t[1], !.minute = t[2], !.second = t[3],
             !.millisecond = t[4]]

\* C6: sunRiseSet and sunTransit truncate the input to local midnight: two
\* datetimes of one zone and one local calendar date that differ only in
\* time of day (hour, minute, second or millisecond) give the same returned
\* instant for the same location, flag and offset.
C6_TimeOfDayIrrelevant ==
  LET a == last.args
  IN  /\ (IsRiseSet /\ last.setting = roundToNearestMinute
             /\ last.out.kind = "instant") =>
           \A t \in TimesOfDay :
             sunRiseSet(AtTimeOfDay(a.datetime, t), a.phi, a.L, a.flag,
                        a.offset).value = last.out.value
      /\ (IsTransit /\ last.setting = roundToNearestMinute) =>
           \A t \in TimesOfDay :
             sunTransit(AtTimeOfDay(a.datetime, t), a.L).value
               = last.out.value

\* the seconds from instant a to instant b, both of one zone, when the two
\* agree in their milliseconds
SecondsBetween(a, b) == LocalSeconds(b) - LocalSeconds(a)

\* C7: with roundToNearestMinute set the returned instant is the unrounded
\* event instant plus 30 seconds with its seconds set to 0, so it lies on a
\* whole minute and is at most 30 seconds from the unrounded instant; with
\* the setting clear the returned instant is the unrounded one.
C7_MinuteRounding ==
  ((IsRiseSet \/ IsTransit) /\ last.out.kind = "instant") =>
    LET o == last.out
    IN  IF last.setting
          THEN /\ o.value = DtSetSecond(DtPlusSeconds(o.unrounded, 30), 0)
               /\ o.value.second = 0 /\ o.value.millisecond = 0
               /\ Abs(SecondsBetween(o.unrounded, o.value)) <= 30
          ELSE o.value = o.unrounded

\* C10: in sunRiseSet the returned instant is the UTC midnight instant
\* shifted by round(m * 86400) seconds, signed: before that midnight for a
\* final day fraction m <= 0, after it for m > 0; sunTransit shifts the
\* midnight by the same signed number of seconds for the same m.
C10_SignedShift ==
  ((IsRiseSet \/ IsTransit) /\ last.out.kind = "instant") =>
    LET o == last.out
    IN  Instant(o.unrounded)
          = Instant(DtPlusSeconds(o.midnight, SecondsOf(o.m)))

\* the new/full-moon and quarter corrections of truePhase(k0, phase), as
\* the claim C8 composes them, in microdays
PhaseSpecific(k0, phase) ==
  LET k      == 4 * k0 + phase
      T      == kToT(k)
      E      == eccentricityCorrection(T)
      M      == sunMeanAnomaly(T, k)
      MPrime == moonMeanAnomaly(T, k)
      F      == moonArgumentOfLatitude(T, k)
      Omega  == moonAscendingNodeLongitude(T, k)
      W      == QuarterW(E, M, MPrime, F)
  IN  CASE phase = 0 ->
             (NewFullSeries(E, M, MPrime, F, Omega)
                + NewMoonSeries(E, M, MPrime, F)) \div 1000
        [] phase = 2 ->
             (NewFullSeries(E, M, MPrime, F, Omega)
                + FullMoonSeries(E, M, MPrime, F)) \div 1000
        [] phase = 1 -> (QuarterSeries(E, M, MPrime, F, Omega) + W) \div 1000
        [] phase = 3 -> (QuarterSeries(E, M, MPrime, F, Omega) - W) \div 1000

\* C8: truePhase(k, phase), phase in 0 .. 3, is meanPhase plus the common
\* correction plus the phase-specific correction: the common correction for
\* every phase, the new/full-moon series exactly for phases 0 and 2, the
\* quarter series exactly for phases 1 and 3, W added for phase 1,
\* subtracted for phase 3 and absent for phases 0 and 2.
C8_TruePhaseSum ==
  IsTruePhase =>
    LET k0 == last.args.k
        ph == last.args.phase
        k  == 4 * k0 + ph
        T  == kToT(k)
    IN  last.out.jde = meanPhase(T, k)
                         + commonCorrections(planetaryArguments(T, k))
                         + PhaseSpecific(k0, ph)

\* a last quarter was computed, and its W and common correction are not 0
C8_Witness ==
  /\ IsTruePhase /\ last.args.phase = 3
  /\ LET k == 4 * last.args.k + 3
         T == kToT(k)
     IN  /\ QuarterW(eccentricityCorrection(T), sunMeanAnomaly(T, k),
                     moonMeanAnomaly(T, k), moonArgumentOfLatitude(T, k)) # 0
         /\ commonCorrections(planetaryArguments(T, k)) # 0

\* the mean lunation, 29.530588861 days, in microdays
MeanLunation == 4 * 7382647 + 1

\* the sum of the absolute coefficients of the corrections of a new moon
\* (18 shared terms, 7 leading terms, 14 common terms), in microdays
CorrectionBound == 10 * (420 + 62069) + 1292

\* C9: new-moon times increase strictly with the lunation count:
\* truePhase(k + 1, 0) > truePhase(k, 0), and the difference is the mean
\* lunation give or take at most the sum of the absolute correction
\* coefficients.
C9_NewMoonsIncrease ==
  (IsTruePhase /\ last.args.phase = 0) =>
    LET d == truePhase(last.args.k + 1, 0) - last.out.jde
    IN  d > 0 /\ Abs(d - MeanLunation) <= CorrectionBound

\* a new moon whose lunation differs from the mean by over 0.2 days
C9_Witness ==
  /\ IsTruePhase /\ last.args.phase = 0
  /\ Abs(truePhase(last.args.k + 1, 0) - last.out.jde - MeanLunation) > 200000

IsNormalizeM == last.fn = "normalizeM"
IsSecondsOf == last.fn = "secondsOf"
IsInterpolatedDec == last.fn = "interpolatedDec"

\* C11: for every raw fraction m0 = (alpha - L - Theta0) / 360 with alpha
\* and Theta0 in [0, 360) and L in [-180, 180], and every UTC offset, the
\* value normalizeM returns satisfies 0 <= value + utcOffset / 1440 < 1, and
\* an m0 already in [0, 1) after adding the offset is returned unchanged.
C11_OnLocalDate ==
  IsNormalizeM =>
    LET local0 == last.out.m0 + last.args.utcOffset * 120
        local  == last.out.value + last.args.utcOffset * 120
    IN  /\ 0 <= local /\ local < DayM
        /\ (0 <= local0 /\ local0 < DayM) => last.out.value = last.out.m0

\* a correction of magnitude <= 0.0001 of a day (17.28 half seconds)
WithinTolerance(d) == Abs(d) * 100 <= 1728

\* C12: the correction loop of sunRiseSet runs sunRiseSetCorrection at
\* least once and at most 3 times, adds every correction to m, stops
\* early exactly when the last correction is within 0.0001, and at its
\* exit either 3 rounds were run or the last correction is within 0.0001.
C12_LoopBounded ==
  (IsRiseSet /\ last.out.kind = "instant") =>
    LET a  == last.args
        o  == last.out
        T  == a.datetime.day
        corr(x) == sunRiseSetCorrection(T, apparentSiderealTimeGreenwich(T),
                     DeltaTOf(a.datetime), a.phi, a.L, x, a.offset)
        d1 == corr(o.mStart)
        m1 == o.mStart + d1
        d2 == corr(m1)
        m2 == m1 + d2
        d3 == corr(m2)
        m3 == m2 + d3
    IN  /\ o.rounds \in 1 .. 3
        /\ o.rounds = 1 =>
             /\ WithinTolerance(d1)
             /\ o.m = m1 /\ o.DeltaM = d1
        /\ o.rounds = 2 =>
             /\ ~WithinTolerance(d1) /\ WithinTolerance(d2)
             /\ o.m = m2 /\ o.DeltaM = d2
        /\ o.rounds = 3 =>
             /\ ~WithinTolerance(d1) /\ ~WithinTolerance(d2)
             /\ o.m = m3 /\ o.DeltaM = d3
        /\ o.rounds = 3 \/ WithinTolerance(o.DeltaM)

\* the loop stopped early, after a second correction that was not 0
C12_Witness ==
  /\ IsRiseSet /\ last.out.kind = "instant"
  /\ last.out.rounds = 2 /\ last.out.DeltaM # 0

\* C13: sunTransit starts from the normalised base fraction m0 with no
\* hour-angle term, applies the one correction -H / 360 of
\* sunTransitCorrection, and returns an instant: it never throws SUN_HIGH
\* or SUN_LOW, whatever the date and the longitude.
C13_TransitOneCorrection ==
  IsTransit =>
    LET a      == last.args
        o      == last.out
        T      == a.datetime.day
        Theta0 == apparentSiderealTimeGreenwich(T)
        raw    == ((sunApparentRightAscension(T) - a.L - Theta0) * 24) \div 5
        H      == localHourAngle(SiderealAt(Theta0, o.m0), a.L,
                    interpolatedRa(T, TDFraction(o.m0, DeltaTOf(a.datetime))))
    IN  /\ o.kind = "instant" /\ o.code = NoThrow
        /\ o.m0 = normalizeM(raw, a.datetime.offset)
        /\ o.mStart = o.m0 /\ o.H0 = 0
        /\ o.rounds = 1
        /\ o.DeltaM = (-H * 24) \div 5
        /\ o.m = o.m0 + o.DeltaM

\* a transit was computed for 78.22 N, 15.65 E on 2020-06-21, a day on
\* which the sun does not set there, with a correction that is not 0
C13_Witness ==
  /\ IsTransit /\ last.out.kind = "instant"
  /\ last.args.L = 1565 /\ last.args.datetime.day = 7477
  /\ last.out.DeltaM # 0

\* m * 86400 is exactly halfway between two integers: m is an odd number
\* of half seconds
IsTie(m) == m % 2 = 1

\* C14 (as claimed): the second offset Math.floor(m * 86400 + 0.5) rounds
\* ties away from zero for both signs of m: for m * 86400 halfway between
\* two integers it is the one of larger magnitude (2.5 -> 3, -2.5 -> -3).
C14_TiesAwayFromZero ==
  (IsSecondsOf /\ IsTie(last.args.m)) =>
    Abs(2 * last.out.value) > Abs(last.args.m)

\* C14 (amended): Math.floor(m * 86400 + 0.5) is m * 86400 rounded to the
\* nearest integer with ties rounded up, towards plus infinity, for both
\* signs of m: 2.5 -> 3 and -2.5 -> -2.
C14_TiesUp ==
  IsSecondsOf =>
    LET m == last.args.m
        v == last.out.value
    IN  /\ 2 * v - m \in {0, 1}
        /\ IsTie(m) => 2 * v = m + 1
        /\ m = 5 => v = 3
        /\ m = -5 => v = -2

\* -2.5 seconds were rounded, to -2
C14_Witness ==
  IsSecondsOf /\ last.args.m = -5 /\ last.out.value = -2

\* C15: whenever approxLocalHourAngle returns, its cosine cosH0 is in
\* [-1, 1] and its result H0 is in [0, 180]; the first estimates are
\* m0 - H0 / 360 <= m0 for a rise and m0 + H0 / 360 >= m0 for a set, each
\* at most half a day from the transit estimate m0.
C15_HourAngleRange ==
  (IsRiseSet /\ last.out.kind # "throw") =>
    LET o     == last.out
        shift == (o.H0 * 24) \div 5
    IN  /\ -Unit <= o.cosH0 /\ o.cosH0 <= Unit
        /\ 0 <= o.H0 /\ o.H0 <= 180 * Deg
        /\ o.kind = "instant" =>
             /\ last.args.flag = "RISE" =>
                  (o.mStart = o.m0 - shift /\ o.mStart <= o.m0)
             /\ last.args.flag = "SET" =>
                  (o.mStart = o.m0 + shift /\ o.mStart >= o.m0)
             /\ 2 * Abs(o.mStart - o.m0) <= DayM

\* a rise was estimated from an hour angle above 90 degrees
C15_Witness ==
  /\ IsRiseSet /\ last.out.kind = "instant" /\ last.args.flag = "RISE"
  /\ last.out.cosH0 < 0 /\ last.out.H0 > 90 * Deg
  /\ last.out.mStart < last.out.m0

\* C16: the declination is never folded as an angle: the direct value of
\* sunApparentDeclination and the value interpolatedDec hands to altitude
\* and to the correction formula are both in [-90, 90], the interpolated
\* one being the three-point interpolation as it stands, not reduced into
\* [0, 360).
C16_DeclinationNotFolded ==
  IsInterpolatedDec =>
    LET T == last.args.T
        o == last.out
    IN  /\ -90 * Deg <= o.direct /\ o.direct <= 90 * Deg
        /\ -90 * Deg <= o.value /\ o.value <= 90 * Deg
        /\ o.value = interpolateFromThree(sunApparentDeclination(T - 1),
                       sunApparentDeclination(T),
                       sunApparentDeclination(T + 1), last.args.n, FALSE)

==========================================================================
